---- MODULE Spec2Model ----
(***************************************************************************)
(* The due/payment ledger of profstudenthub: the student_dues and payments *)
(* tables with their trigger, sweep function and row-level-security        *)
(* policies (supabase/migrations), and the payment dialog that writes to   *)
(* them (src/components/payments/PaymentDialog.tsx).                       *)
(*                                                                         *)
(* Time is an instant counted in ticks; TicksPerDay ticks make one UTC     *)
(* calendar day, tick d * TicksPerDay being midnight of day d.  Money is   *)
(* in minor units.  late_fee_percentage is DECIMAL(5,2), held here in      *)
(* hundredths of a percent (5.00 % is 500).                                *)
(***************************************************************************)
EXTENDS Integers, Sequences, FiniteSets, TLC

VARIABLES now, student_dues, payments, session

vars == <<now, student_dues, payments, session>>

(* ------------------------------ bounds -------------------------------- *)
MaxTick == 4
MaxDues == 2
MaxPayments == 2

(* the instants of one calendar day the model tells apart: midnight and a  *)
(* later moment of the same day                                            *)
TicksPerDay == 2

Students == {"s1"}
Professors == {"p1", "p2"}
Clients == {"c1", "c2"}
Amounts == {50000}
DueDates == {1}
Percentages == {500}
FeePercentages == {0, 500, 2900}

(* ------------------------------- time --------------------------------- *)
(* CURRENT_DATE of a statement running at instant t (the database runs in  *)
(* UTC)                                                                    *)
CURRENT_DATE(t) == t \div TicksPerDay

(* new Date("YYYY-MM-DD"): a date-only string is parsed as UTC midnight    *)
NewDate(due_date) == due_date * TicksPerDay

(* ------------------------------ late fee ------------------------------ *)
(* FLOOR(due_amount * (late_fee_percentage / 100)) in NUMERIC arithmetic,  *)
(* which is exact                                                          *)
NumericFloorPct(amount, pct) == (amount * pct) \div 10000

(* The (amount, percentage) pairs of the model's domain for which the      *)
(* binary64 product amount * (percentage / 100) falls just below the exact *)
(* integer: 29 / 100 = 0.28999999999999998 and 50000 * that =              *)
(* 14499.999999999998.                                                     *)
DoubleRoundsBelow == {<<50000, 2900>>, <<100, 2900>>}

(* Math.floor(amount * (lateFeePercentage / 100)) on JavaScript numbers    *)
MathFloorPct(amount, pct) ==
  IF <<amount, pct>> \in DoubleRoundsBelow
    THEN NumericFloorPct(amount, pct) - 1
    ELSE NumericFloorPct(amount, pct)

(* public.calculate_late_fee; current_date is the CURRENT_DATE it reads    *)
calculate_late_fee(due_amount, due_date, late_fee_percentage, current_date) ==
  IF current_date > due_date
    THEN NumericFloorPct(due_amount, late_fee_percentage)
    ELSE 0

(* calculateLateFee of lib/payment-utils; today is the new Date() it reads *)
calculateLateFee(amount, dueDate, lateFeePercentage, today) ==
  IF today <= NewDate(dueDate)
    THEN 0
    ELSE MathFloorPct(amount, lateFeePercentage)

(* calculateTotalAmount of the payment dialog, for the due it was given    *)
calculateTotalAmount(due, today) ==
  IF today > NewDate(due.due_date) /\ due.status # "paid"
    THEN due.amount + MathFloorPct(due.amount, due.late_fee_percentage)
    ELSE due.amount

(* calculateLateFee of the student list's other copy, which charges the   *)
(* fee on pending dues only                                                *)
calculateLateFee_list(due, today) ==
  IF today > NewDate(due.due_date) /\ due.status = "pending"
    THEN MathFloorPct(due.amount, due.late_fee_percentage)
    ELSE 0

(* calculateDaysLeft (and getDaysUntilDue): Math.ceil of the time from     *)
(* today to the due date's midnight, in days                               *)
calculateDaysLeft(dueDate, today) ==
  -((today - NewDate(dueDate)) \div TicksPerDay)

(* ------------------------------ tables -------------------------------- *)
Statuses == {"pending", "paid", "overdue", "failed"}

DueIds == 1..Len(student_dues)

RECURSIVE SumAmounts(_)
SumAmounts(rows) ==
  IF rows = <<>> THEN 0 ELSE Head(rows).amount + SumAmounts(Tail(rows))

RowsOfDue(rows, id) == SelectSeq(rows, LAMBDA p : p.due_id = id)

(* SELECT COALESCE(SUM(amount), 0) FROM payments WHERE due_id = id, over   *)
(* the rows visible to the reader                                          *)
PaidSum(rows, id) == SumAmounts(RowsOfDue(rows, id))

(* amount + calculate_late_fee(amount, due_date, late_fee_percentage)      *)
TotalOwed(due, current_date) ==
  due.amount
    + calculate_late_fee(due.amount, due.due_date, due.late_fee_percentage, current_date)

(* ---- the totals of the lists ------------------------------------------ *)
RECURSIVE SumInts(_)
SumInts(ns) == IF ns = <<>> THEN 0 ELSE Head(ns) + SumInts(Tail(ns))

(* .filter(due => due.status === 'pending' || due.status === 'overdue')    *)
Unsettled(dues) == SelectSeq(dues, LAMBDA d : d.status \in {"pending", "overdue"})

(* totalOutstanding of ProfessorPayments (and the student list's Total     *)
(* Outstanding card): .reduce((sum, due) => sum + calculateTotalAmount(due)) *)
totalOutstanding(dues, today) ==
  SumInts([i \in 1..Len(Unsettled(dues)) |->
             calculateTotalAmount(Unsettled(dues)[i], today)])

(* totalOutstanding of the professor list's other copy: sum + due.amount   *)
totalOutstanding_amounts(dues) ==
  SumInts([i \in 1..Len(Unsettled(dues)) |-> Unsettled(dues)[i].amount])

(* Total Outstanding of the student list's other copy:                     *)
(* sum + due.amount + calculateLateFee(due)                                *)
totalOutstanding_list(dues, today) ==
  SumInts([i \in 1..Len(Unsettled(dues)) |->
             Unsettled(dues)[i].amount
               + calculateLateFee_list(Unsettled(dues)[i], today)])

(* totalCollected: the amounts of the dues whose status is paid            *)
totalCollected(dues) ==
  SumInts([i \in 1..Len(SelectSeq(dues, LAMBDA d : d.status = "paid")) |->
             SelectSeq(dues, LAMBDA d : d.status = "paid")[i].amount])

Idle ==
  [pc |-> "idle", due_id |-> 0, amount |-> 0, started |-> 0, sets_paid |-> FALSE]

Init ==
  /\ now = 0
  /\ student_dues = <<>>
  /\ payments = <<>>
  /\ session = [c \in Clients |-> Idle]

(* ------------------------------ actions ------------------------------- *)
Tick ==
  /\ now < MaxTick
  /\ now' = now + 1
  /\ UNCHANGED <<student_dues, payments, session>>

(* CreateDueDialog.handleSubmit: a professor inserts a due for a student;  *)
(* status takes the column default 'pending'                               *)
CreateDue(student, amount, due_date, pct) ==
  /\ Len(student_dues) < MaxDues
  /\ student_dues' = Append(student_dues,
       [student_id |-> student, amount |-> amount, due_date |-> due_date,
        late_fee_percentage |-> pct, status |-> "pending", updated_at |-> now])
  /\ UNCHANGED <<now, payments, session>>

(* ---- the payment dialog (StudentPayments + PaymentDialog) ------------- *)
(* profiles.role of a user                                                 *)
Role(user) == IF user \in Professors THEN "professor" ELSE "student"

(* StudentPayments lists the user's dues that are pending or overdue, each *)
(* with a Pay Now button; the dialog renders once for the chosen due and   *)
(* keeps the total it computed at that instant.                            *)
OpenDialog(c, id) ==
  /\ session[c].pc = "idle"
  /\ id \in DueIds
  /\ student_dues[id].status \in {"pending", "overdue"}
  /\ session' = [session EXCEPT ![c] =
       [pc |-> "open", due_id |-> id,
        amount |-> calculateTotalAmount(student_dues[id], now),
        started |-> 0, sets_paid |-> FALSE]]
  /\ UNCHANGED <<now, student_dues, payments>>

(* onOpenChange(false): the dialog is dismissed without paying             *)
CloseDialog(c) ==
  /\ session[c].pc = "open"
  /\ session' = [session EXCEPT ![c] = Idle]
  /\ UNCHANGED <<now, student_dues, payments>>

(* ---- one INSERT INTO payments, a transaction of its own --------------- *)
InFlight == {c \in Clients : session[c].pc \in {"wantlock", "ready"}}

(* the session whose uncommitted UPDATE holds the row lock of due id       *)
LockHolders(id) ==
  {c \in Clients : /\ session[c].pc = "ready"
                   /\ session[c].sets_paid
                   /\ session[c].due_id = id}

(* variant of update_due_status: the test leaves the late fee out          *)
update_due_status_nofee(visible, id, amount, current_date) ==
  PaidSum(visible, id) + amount >= student_dues[id].amount

(* The IF of update_due_status, evaluated by the AFTER INSERT trigger in   *)
(* the inserting transaction: under READ COMMITTED it sees the committed   *)
(* payments and the row just inserted, and CURRENT_DATE is the date the    *)
(* transaction started.                                                    *)
update_due_status(visible, id, amount, current_date) ==
  PaidSum(visible, id) + amount >= TotalOwed(student_dues[id], current_date)

(* the statement runs: the row is inserted, not yet committed, and the     *)
(* trigger decides whether it will UPDATE the due                          *)
Insert(c, id, amount) ==
  /\ Len(payments) + Cardinality(InFlight) < MaxPayments
  /\ LET paying == update_due_status(payments, id, amount, CURRENT_DATE(now))
     IN session' = [session EXCEPT ![c] =
          [pc |-> IF paying THEN "wantlock" ELSE "ready", due_id |-> id,
           amount |-> amount, started |-> now, sets_paid |-> paying]]
  /\ UNCHANGED <<now, student_dues, payments>>

(* handlePayment, lines 63-72: insert { student_id: user.id, due_id:       *)
(* due.id, amount: totalAmount }                                           *)
handlePayment(c) ==
  /\ session[c].pc = "open"
  /\ Insert(c, session[c].due_id, session[c].amount)

(* UPDATE student_dues ... WHERE id = NEW.due_id takes the row lock, after *)
(* waiting for a transaction that holds it                                 *)
AcquireLock(c) ==
  /\ session[c].pc = "wantlock"
  /\ LockHolders(session[c].due_id) = {}
  /\ session' = [session EXCEPT ![c].pc = "ready"]
  /\ UNCHANGED <<now, student_dues, payments>>

(* variants of Commit: the trigger's UPDATE without its WHERE clause; the   *)
(* payment stored in place of the due's earlier payments                   *)
Commit_allrows(c) ==
  /\ session[c].pc = "ready"
  /\ LET s == session[c]
     IN /\ payments' = Append(payments,
             [student_id |-> student_dues[s.due_id].student_id,
              due_id |-> s.due_id, amount |-> s.amount])
        /\ student_dues' =
             IF s.sets_paid
               THEN [id \in DueIds |->
                       [student_dues[id] EXCEPT !.status = "paid",
                                                !.updated_at = s.started]]
               ELSE student_dues
        /\ session' = [session EXCEPT ![c] = [Idle EXCEPT !.pc = "update",
                                                          !.due_id = s.due_id]]
  /\ UNCHANGED now

Commit_replace(c) ==
  /\ session[c].pc = "ready"
  /\ LET s == session[c]
     IN /\ payments' = Append(SelectSeq(payments, LAMBDA p : p.due_id # s.due_id),
             [student_id |-> student_dues[s.due_id].student_id,
              due_id |-> s.due_id, amount |-> s.amount])
        /\ student_dues' =
             IF s.sets_paid
               THEN [student_dues EXCEPT ![s.due_id].status = "paid",
                                         ![s.due_id].updated_at = s.started]
               ELSE student_dues
        /\ session' = [session EXCEPT ![c] = [Idle EXCEPT !.pc = "update",
                                                          !.due_id = s.due_id]]
  /\ UNCHANGED now

(* the transaction commits: the payment becomes visible, and with it the   *)
(* trigger's SET status = 'paid', updated_at = now()                       *)
Commit(c) ==
  /\ session[c].pc = "ready"
  /\ LET s == session[c]
     IN /\ payments' = Append(payments,
             [student_id |-> student_dues[s.due_id].student_id,
              due_id |-> s.due_id, amount |-> s.amount])
        /\ student_dues' =
             IF s.sets_paid
               THEN [student_dues EXCEPT ![s.due_id].status = "paid",
                                         ![s.due_id].updated_at = s.started]
               ELSE student_dues
        /\ session' = [session EXCEPT ![c] = [Idle EXCEPT !.pc = "update",
                                                          !.due_id = s.due_id]]
  /\ UNCHANGED now

(* variant of CanUpdateDues: an UPDATE policy that admits every user       *)
CanUpdateDues_any(user) == TRUE

(* the UPDATE policies on student_dues: only "Professors can manage dues"  *)
(* (FOR ALL) covers UPDATE, so a student's UPDATE matches no row           *)
CanUpdateDues(user) == Role(user) = "professor"

(* handlePayment, lines 76-82: update({ status: 'paid' }).eq('id', due.id) *)
(* as the paying user; an UPDATE that matches no row is not an error       *)
ClientUpdate(c) ==
  /\ session[c].pc = "update"
  /\ LET id == session[c].due_id
     IN student_dues' =
          IF CanUpdateDues(student_dues[id].student_id)
            THEN [student_dues EXCEPT ![id].status = "paid",
                                      ![id].updated_at = now]
            ELSE student_dues
  /\ session' = [session EXCEPT ![c] = Idle]
  /\ UNCHANGED <<now, payments>>

(* ---- the overdue sweep ------------------------------------------------ *)
(* variants of mark_overdue_where: no status test; every status but paid;  *)
(* every status but overdue; the due date itself counted as lapsed; a day  *)
(* of grace                                                                *)
mark_overdue_where_any(due, current_date) ==
  due.due_date < current_date

mark_overdue_where_unpaid(due, current_date) ==
  due.due_date < current_date /\ due.status # "paid"

mark_overdue_where_notoverdue(due, current_date) ==
  due.due_date < current_date /\ due.status # "overdue"

mark_overdue_where_le(due, current_date) ==
  due.due_date <= current_date /\ due.status = "pending"

mark_overdue_where_grace(due, current_date) ==
  due.due_date + 1 < current_date /\ due.status = "pending"

(* a further variant: the status test inverted                             *)
mark_overdue_where_inverted(due, current_date) ==
  due.due_date < current_date /\ due.status # "pending"

(* a further variant: failed dues swept as well as pending ones            *)
mark_overdue_where_failed(due, current_date) ==
  due.due_date < current_date /\ due.status \in {"pending", "failed"}

(* WHERE due_date < CURRENT_DATE AND status = 'pending'                    *)
mark_overdue_where(due, current_date) ==
  due.due_date < current_date /\ due.status = "pending"

(* the rows one run of the sweep updates                                   *)
SweepRows(dues, current_date) ==
  {id \in 1..Len(dues) : mark_overdue_where(dues[id], current_date)}

(* public.mark_overdue_payments: one UPDATE, which waits for the row lock  *)
(* of a row it matches and then tests the committed row                    *)
mark_overdue_payments ==
  /\ \A id \in SweepRows(student_dues, CURRENT_DATE(now)) : LockHolders(id) = {}
  /\ student_dues' =
       [id \in DueIds |->
          IF id \in SweepRows(student_dues, CURRENT_DATE(now))
            THEN [student_dues[id] EXCEPT !.status = "overdue", !.updated_at = now]
            ELSE student_dues[id]]
  /\ UNCHANGED <<now, payments, session>>

(* one step of the system: the clients in C use the dialog, and dues are   *)
(* created with a late-fee percentage from P                               *)
Step(C, P) ==
  \/ Tick
  \/ \E s \in Students, a \in Amounts, dd \in DueDates, pct \in P :
       CreateDue(s, a, dd, pct)
  \/ \E c \in C, id \in DueIds : OpenDialog(c, id)
  \/ \E c \in C : CloseDialog(c)
  \/ \E c \in C : handlePayment(c)
  \/ \E c \in C : AcquireLock(c)
  \/ \E c \in C : Commit(c)
  \/ \E c \in C : ClientUpdate(c)
  \/ mark_overdue_payments

Next == Step(Clients, Percentages)

Spec == Init /\ [][Next]_vars

(* the late-fee functions over a wider range of percentages, one client    *)
NextFee == Step({"c1"}, FeePercentages)

SpecFee == Init /\ [][NextFee]_vars

(* the sweep is run by a scheduler and a statement that started finishes;  *)
(* one client                                                              *)
NextLive == Step({"c1"}, Percentages)

SpecLive ==
  /\ Init
  /\ [][NextLive]_vars
  /\ WF_vars(mark_overdue_payments)
  /\ WF_vars(AcquireLock("c1"))
  /\ WF_vars(Commit("c1"))

(* RETURNS VOID: the values a call of mark_overdue_payments hands back to  *)
(* its caller, of which there is none                                      *)
mark_overdue_payments_returns(dues, current_date) == {}

(* ---- a due marked failed ----------------------------------------------- *)
(* No statement of the repository writes 'failed'; the enum has the value  *)
(* and the policy "Professors can manage dues" (FOR ALL) lets a professor, *)
(* or the backend acting for the payment gateway, UPDATE student_dues SET  *)
(* status = 'failed' on a due that is not settled.  The UPDATE waits for   *)
(* the row lock, and update_student_dues_updated_at stamps updated_at.     *)
MarkFailed(id) ==
  /\ id \in DueIds
  /\ student_dues[id].status \in {"pending", "overdue"}
  /\ LockHolders(id) = {}
  /\ student_dues' = [student_dues EXCEPT ![id].status = "failed",
                                          ![id].updated_at = now]
  /\ UNCHANGED <<now, payments, session>>

NextFailed ==
  \/ Step({"c1"}, Percentages)
  \/ \E id \in DueIds : MarkFailed(id)

SpecFailed == Init /\ [][NextFailed]_vars

(* ---- handlePayment's catch branch -------------------------------------- *)
(* After "Payment Failed" the dialog stays open (onOpenChange is not       *)
(* called) and renders again: the total is computed anew from the due it   *)
(* was given, which is not fetched again and was pending or overdue.       *)
DialogAfterError(id) ==
  [Idle EXCEPT !.pc = "open", !.due_id = id,
               !.amount = calculateTotalAmount(
                            [student_dues[id] EXCEPT !.status = "pending"], now)]

(* line 74, if (paymentError) throw paymentError: the INSERT request fails *)
(* (the connection is lost, the statement is cancelled), its transaction   *)
(* is rolled back and nothing of it is stored                              *)
InsertError(c) ==
  /\ session[c].pc \in {"wantlock", "ready"}
  /\ session' = [session EXCEPT ![c] = DialogAfterError(session[c].due_id)]
  /\ UNCHANGED <<now, student_dues, payments>>

(* line 82, if (updateError) throw updateError: the UPDATE request, sent   *)
(* after the INSERT succeeded, fails                                       *)
UpdateError(c) ==
  /\ session[c].pc = "update"
  /\ session' = [session EXCEPT ![c] = DialogAfterError(session[c].due_id)]
  /\ UNCHANGED <<now, student_dues, payments>>

NextErr ==
  \/ Step({"c1"}, Percentages)
  \/ InsertError("c1")
  \/ UpdateError("c1")

SpecErr == Init /\ [][NextErr]_vars

(* ---- the tables as the API exposes them -------------------------------- *)
(* The browser talks to the tables through the REST API with the user's    *)
(* token, and so can any program holding that token: what the database     *)
(* accepts is what the policies, column types and constraints allow.       *)
StoreStudents == {"s1", "s2"}

(* the repository holds two definitions of the payment tables: migration   *)
(* 20250818052404, which declares no foreign key, and another copy of the  *)
(* schema that adds fk_payments_due; a database is built from one of them  *)
Schemas == {"20250818052404", "with_fk"}

(* a due_id that is the id of no due (ids are random UUIDs)                *)
NoSuchDue == 0

(* FOREIGN KEY (due_id) REFERENCES public.student_dues(id)                 *)
fk_payments_due(due_id) == due_id \in DueIds

(* policy "Students can create their own payments": WITH CHECK             *)
(* (student_id = auth.uid())                                               *)
CanInsertPayment(user, student_id) == student_id = user

(* INSERT INTO payments (student_id, due_id, amount) by user, run alone:   *)
(* the policy and, where declared, the foreign key admit the row; the      *)
(* trigger then compares the sum with what the due owes (a comparison with *)
(* the NULL of a missing due is not true) and the transaction commits.     *)
ApiInsertPayment(user, student_id, due_id, amount, schema) ==
  /\ Len(payments) < MaxPayments
  /\ CanInsertPayment(user, student_id)
  /\ schema = "with_fk" => fk_payments_due(due_id)
  /\ payments' = Append(payments,
       [student_id |-> student_id, due_id |-> due_id, amount |-> amount])
  /\ student_dues' =
       IF due_id \in DueIds
            /\ update_due_status(payments, due_id, amount, CURRENT_DATE(now))
         THEN [student_dues EXCEPT ![due_id].status = "paid",
                                   ![due_id].updated_at = now]
         ELSE student_dues
  /\ UNCHANGED <<now, session>>

NextStore ==
  \/ Tick
  \/ \E s \in StoreStudents, a \in Amounts, dd \in DueDates, pct \in Percentages :
       CreateDue(s, a, dd, pct)
  \/ \E user, s \in StoreStudents, id \in DueIds \cup {NoSuchDue},
         a \in Amounts, schema \in Schemas :
       ApiInsertPayment(user, s, id, a, schema)
  \/ mark_overdue_payments

SpecStore == Init /\ [][NextStore]_vars

(* ---- dues as the form and the table accept them ----------------------- *)
(* the amount field has min="0": 0 passes the browser's validation and     *)
(* the test !formData.amount (the string "0" is not empty)                 *)
FormAmounts == {0, 50000}

(* values the column types hold and the form's min and max would stop:     *)
(* amount INTEGER, late_fee_percentage DECIMAL(5,2)                        *)
ColumnAmounts == {-100, 50000}
ColumnPercentages == {500, 15000}

(* INSERT INTO student_dues by user through the API: the policy            *)
(* "Professors can manage dues" admits a professor's row; the table        *)
(* declares no CHECK constraint                                            *)
ApiInsertDue(user, student, amount, due_date, pct) ==
  /\ CanUpdateDues(user)
  /\ CreateDue(student, amount, due_date, pct)

NextForm ==
  \/ Tick
  \/ \E s \in Students, a \in FormAmounts, dd \in DueDates, pct \in Percentages :
       CreateDue(s, a, dd, pct)
  \/ \E user \in Students \cup Professors, s \in Students, a \in ColumnAmounts,
         dd \in DueDates, pct \in ColumnPercentages :
       ApiInsertDue(user, s, a, dd, pct)
  \/ \E id \in DueIds : OpenDialog("c1", id)
  \/ CloseDialog("c1")
  \/ handlePayment("c1")
  \/ AcquireLock("c1")
  \/ Commit("c1")
  \/ ClientUpdate("c1")
  \/ mark_overdue_payments

SpecForm == Init /\ [][NextForm]_vars

(* ---- rows removed through the API -------------------------------------- *)
(* payments has policies for SELECT and INSERT only, so no user's UPDATE   *)
(* or DELETE matches a payment row; student_dues has a FOR ALL policy.     *)

(* FOREIGN KEY (due_id) REFERENCES public.student_dues(id) ON DELETE       *)
(* CASCADE, in the schema that declares it: the payments of a deleted due  *)
(* go with it                                                              *)
OnDeleteCascade(rows, due_id, schema) ==
  IF schema = "with_fk"
    THEN SelectSeq(rows, LAMBDA p : p.due_id # due_id)
    ELSE rows

(* DELETE FROM student_dues WHERE id = ... by user: the policy "Professors *)
(* can manage dues" is FOR ALL and so covers DELETE.  Written for the      *)
(* newest due, whose removal leaves the ids of the others as they are.     *)
ApiDeleteDue(user, id, schema) ==
  /\ CanUpdateDues(user)
  /\ id \in DueIds
  /\ id = Len(student_dues)
  /\ student_dues' = SubSeq(student_dues, 1, id - 1)
  /\ payments' = OnDeleteCascade(payments, id, schema)
  /\ UNCHANGED <<now, session>>

(* a due is created under an id nothing refers to (ids are random UUIDs)   *)
CreateFreshDue(student, amount, due_date, pct) ==
  /\ \A i \in 1..Len(payments) : payments[i].due_id # Len(student_dues) + 1
  /\ CreateDue(student, amount, due_date, pct)

NextDelete ==
  \/ Tick
  \/ \E s \in Students, a \in Amounts, dd \in DueDates, pct \in Percentages :
       CreateFreshDue(s, a, dd, pct)
  \/ \E s \in Students, id \in DueIds, a \in Amounts, schema \in Schemas :
       ApiInsertPayment(s, s, id, a, schema)
  \/ \E user \in Students \cup Professors, id \in DueIds, schema \in Schemas :
       ApiDeleteDue(user, id, schema)
  \/ mark_overdue_payments

SpecDelete == Init /\ [][NextDelete]_vars

(* ---- what each list fetches -------------------------------------------- *)
(* A due may name a subject, and a subject belongs to one professor: the   *)
(* form offers the professor's own subjects (fetchSubjects:                *)
(* .eq('professor_id', user.id)).  subject_owner is the professor of the   *)
(* due's subject.                                                          *)
CreateSubjectDue(professor, student, amount, due_date, pct) ==
  /\ Len(student_dues) < MaxDues
  /\ student_dues' = Append(student_dues,
       [student_id |-> student, subject_owner |-> professor, amount |-> amount,
        due_date |-> due_date, late_fee_percentage |-> pct,
        status |-> "pending", updated_at |-> now])
  /\ UNCHANGED <<now, payments, session>>

(* the SELECT policies of student_dues: a student sees the dues whose      *)
(* student_id is theirs, a professor sees every due                        *)
CanViewDue(user, due) == due.student_id = user \/ Role(user) = "professor"

(* StudentPayments.fetchDues: .eq('student_id', user.id)                   *)
fetchDues_student(user) ==
  SelectSeq(student_dues, LAMBDA d : CanViewDue(user, d) /\ d.student_id = user)

(* ProfessorPayments.fetchDues: no filter, every row the policies show     *)
fetchDues_professor(user) ==
  SelectSeq(student_dues, LAMBDA d : CanViewDue(user, d))

(* filteredDues.filter(due => due.status === 'overdue').length             *)
overdueCount(dues) == Len(SelectSeq(dues, LAMBDA d : d.status = "overdue"))

(* new Set(filteredDues.map(due => due.student_id)).size                   *)
totalStudents(dues) == Cardinality({dues[i].student_id : i \in 1..Len(dues)})

NextScope ==
  \/ Tick
  \/ \E p \in Professors, s \in StoreStudents, a \in Amounts, dd \in DueDates,
         pct \in Percentages :
       CreateSubjectDue(p, s, a, dd, pct)
  \/ mark_overdue_payments

SpecScope == Init /\ [][NextScope]_vars

(* ------------------------------ claims -------------------------------- *)
Today == CURRENT_DATE(now)

Due(id) == student_dues[id]

(* the CURRENT_DATE the statements of session c's transaction read         *)
TxDate(c) == CURRENT_DATE(session[c].started)

(* floor(baseAmount * lateFeePercentage / 100) once late, else 0           *)
LateFeeContract(amount, pct, late) ==
  IF late THEN (amount * pct) \div 10000 ELSE 0

(* C1: both late-fee functions return 0 while asOf <= dueDate and          *)
(* floor(baseAmount * lateFeePercentage / 100) once asOf > dueDate; each   *)
(* is read with the asOf it compares: the database's with the current      *)
(* date, the client's with the current instant against the due date's      *)
(* midnight.                                                               *)
C1_LateFeeContract ==
  \A id \in DueIds :
    /\ calculate_late_fee(Due(id).amount, Due(id).due_date,
                          Due(id).late_fee_percentage, Today)
         = LateFeeContract(Due(id).amount, Due(id).late_fee_percentage,
                           Today > Due(id).due_date)
    /\ calculateLateFee(Due(id).amount, Due(id).due_date,
                        Due(id).late_fee_percentage, now)
         = LateFeeContract(Due(id).amount, Due(id).late_fee_percentage,
                           now > NewDate(Due(id).due_date))

(* C2: immediately after a payment is recorded (its transaction commits),  *)
(* if the payments recorded for the due sum to at least totalOwed(due,     *)
(* today), today being the date the recording ran, the due's status is     *)
(* paid.                                                                   *)
C2_PaidWhenCovered ==
  [][\A c \in Clients :
       Commit(c) =>
         LET id == session[c].due_id
         IN PaidSum(payments', id) >= TotalOwed(Due(id), TxDate(c))
              => student_dues'[id].status = "paid"]_vars

C4_Reconciliation ==
  \A id \in DueIds :
    Due(id).status = "paid" =>
      PaidSum(payments, id) >= TotalOwed(Due(id), CURRENT_DATE(Due(id).updated_at))

(* a due paid after its due date by a second payment, the first having     *)
(* been the total shown on an earlier date and no longer enough            *)
C4_Witness ==
  \E id \in DueIds :
    /\ Due(id).status = "paid"
    /\ CURRENT_DATE(Due(id).updated_at) > Due(id).due_date
    /\ Len(RowsOfDue(payments, id)) >= 2
    /\ RowsOfDue(payments, id)[1].amount
         < TotalOwed(Due(id), CURRENT_DATE(Due(id).updated_at))

(* C5: once a due's status is paid, no step changes it.                    *)
C5_PaidIsFinal ==
  [][\A id \in DueIds :
       Due(id).status = "paid" => student_dues'[id].status = "paid"]_vars

(* a due paid on time, seen on a later day after its due date, when the    *)
(* sweep's date test matches it                                            *)
C5_Witness ==
  \E id \in DueIds :
    /\ Due(id).status = "paid"
    /\ CURRENT_DATE(Due(id).updated_at) <= Due(id).due_date
    /\ Today > Due(id).due_date

(* C6: once no recording is in progress on a due, its status is paid if    *)
(* its payments sum to at least totalOwed(due, today): two concurrent      *)
(* payments that are each too small alone and enough together leave the    *)
(* due paid.                                                               *)
C6_ConcurrentPayments ==
  \A id \in DueIds :
    (/\ \A c \in Clients : session[c].pc \in {"wantlock", "ready"}
                             => session[c].due_id # id
     /\ PaidSum(payments, id) >= TotalOwed(Due(id), Today))
      => Due(id).status = "paid"

(* C7: the sweep never changes a due that is paid, and a payment's         *)
(* transition to paid is applied when its transaction commits whatever     *)
(* the sweep did to the due in between.                                    *)
C7_SweepKeepsPaid ==
  [][/\ mark_overdue_payments =>
          \A id \in DueIds :
            Due(id).status = "paid" => student_dues'[id].status = "paid"
     /\ \A c \in Clients :
          (Commit(c) /\ session[c].sets_paid)
            => student_dues'[session[c].due_id].status = "paid"]_vars

(* a payment that will mark its due paid is still uncommitted, and the     *)
(* sweep has marked the due overdue after that payment's insert            *)
C7_Witness ==
  \E c \in Clients :
    /\ session[c].pc \in {"wantlock", "ready"}
    /\ session[c].sets_paid
    /\ Due(session[c].due_id).status = "overdue"
    /\ Due(session[c].due_id).updated_at > session[c].started

C9_SweepIdempotent ==
  [][mark_overdue_payments =>
       SweepRows(student_dues', CURRENT_DATE(now')) = {}]_vars

(* the sweep has marked a due overdue and a further run matches nothing    *)
C9_Witness ==
  /\ \E id \in DueIds : Due(id).status = "overdue" /\ Due(id).updated_at = now
  /\ SweepRows(student_dues, Today) = {}

Lapsed(id) ==
  /\ id \in DueIds
  /\ Due(id).status = "pending"
  /\ Due(id).due_date < Today
  /\ PaidSum(payments, id) < TotalOwed(Due(id), Today)

ResolverStep ==
  \/ \E c \in Clients : Commit(c)
  \/ \E c \in Clients : ClientUpdate(c)
  \/ mark_overdue_payments

(* C11: neither the payment-triggered recomputation nor the sweep assigns  *)
(* failed to a due, and neither changes a failed due to pending or         *)
(* overdue.                                                                *)
C11_FailedUntouched ==
  [][ResolverStep =>
       \A id \in DueIds :
         /\ student_dues'[id].status = "failed" => Due(id).status = "failed"
         /\ Due(id).status = "failed"
              => student_dues'[id].status \notin {"pending", "overdue"}]_vars

(* a due has failed, and after that the sweep ran with a current date past *)
(* the failed due's due date (it marked another due overdue); a payment is *)
(* recorded on the failed due, which is still failed                       *)
C11_Witness ==
  \E i, j \in DueIds :
    /\ Due(i).status = "failed"
    /\ Due(j).status = "overdue"
    /\ Due(j).updated_at > Due(i).updated_at
    /\ Due(i).due_date < CURRENT_DATE(Due(j).updated_at)
    /\ RowsOfDue(payments, i) # <<>>

(* C12: a due whose status is failed keeps status failed after every step  *)
(* (payment recordings and sweeps included).                               *)
C12_FailedIsTerminal ==
  [][\A id \in DueIds :
       Due(id).status = "failed" => student_dues'[id].status = "failed"]_vars

(* C13: at every moment of the calendar day equal to the due date the late *)
(* fee is 0 and the total charged is the base amount, in the database's    *)
(* functions and in the client's.                                          *)
C13_OnTimeOnDueDate ==
  \A id \in DueIds :
    Today = Due(id).due_date =>
      /\ calculate_late_fee(Due(id).amount, Due(id).due_date,
                            Due(id).late_fee_percentage, Today) = 0
      /\ TotalOwed(Due(id), Today) = Due(id).amount
      /\ calculateLateFee(Due(id).amount, Due(id).due_date,
                          Due(id).late_fee_percentage, now) = 0
      /\ calculateTotalAmount(Due(id), now) = Due(id).amount

(* C14: for every due that is pending or overdue, at every instant, the    *)
(* late fee and the total the previews show (the dialog's and the lists'   *)
(* calculateTotalAmount, the two calculateLateFee) equal the late fee and  *)
(* the total owed the status resolver uses.                                *)
C14_PreviewEqualsResolver ==
  \A id \in DueIds :
    Due(id).status \in {"pending", "overdue"} =>
      LET fee == calculate_late_fee(Due(id).amount, Due(id).due_date,
                                    Due(id).late_fee_percentage, Today)
      IN /\ calculateTotalAmount(Due(id), now) = TotalOwed(Due(id), Today)
         /\ calculateLateFee(Due(id).amount, Due(id).due_date,
                             Due(id).late_fee_percentage, now) = fee
         /\ calculateLateFee_list(Due(id), now) = fee

(* the catch branch of handlePayment runs: the caller is told "Payment     *)
(* Failed"                                                                 *)
PaymentFailed(c) == InsertError(c) \/ UpdateError(c)

(* the INSERT of c's attempt has committed: its row is in payments and     *)
(* its trigger's update of the due, if any, is applied                     *)
AttemptStored(c) == session[c].pc = "update"

(* C15: whenever recording a payment reports failure to the caller, the    *)
(* attempt has stored no payment row (and so changed no status), so that   *)
(* a retry adds the only row of the settlement.                            *)
C15_NothingStoredOnFailure ==
  [][\A c \in Clients : PaymentFailed(c) => ~AttemptStored(c)]_vars

(* C16: when handlePayment reports success (its status update returned     *)
(* without error), the transition it asked for is in effect: the due is    *)
(* paid, by this update or already.                                        *)
C16_SuccessMeansPaid ==
  [][\A c \in Clients :
       ClientUpdate(c) => student_dues'[session[c].due_id].status = "paid"]_vars

(* C17: every stored payment's student is the student of the due it        *)
(* references.                                                             *)
C17_PaymentOwnerIsDueOwner ==
  \A i \in 1..Len(payments) :
    payments[i].due_id \in DueIds
      => payments[i].student_id = Due(payments[i].due_id).student_id

(* C18: recording a payment that references a due which does not exist     *)
(* stores no payment row and changes no due.                               *)
C18_MissingDueRejected ==
  [][\A user, s \in StoreStudents, a \in Amounts, schema \in Schemas :
       ApiInsertPayment(user, s, NoSuchDue, a, schema)
         => payments' = payments /\ student_dues' = student_dues]_vars

(* C19: every stored payment has an amount greater than 0.                 *)
C19_PaymentAmountPositive ==
  \A i \in 1..Len(payments) : payments[i].amount > 0

(* C20: every stored due has a base amount of at least 0 and a late-fee    *)
(* percentage within [0, 100].                                             *)
C20_DueWithinRange ==
  \A id \in DueIds :
    /\ Due(id).amount >= 0
    /\ Due(id).late_fee_percentage >= 0
    /\ Due(id).late_fee_percentage <= 10000

(* C21: a stored payment stays stored with the same amount, due and        *)
(* student in every later state, and no step removes a due.                *)
C21_AppendOnly ==
  [][/\ Len(payments') >= Len(payments)
     /\ SubSeq(payments', 1, Len(payments)) = payments
     /\ Len(student_dues') >= Len(student_dues)]_vars

(* sum(totalOwed(d, asOf) for d in dues if d.status in {pending, overdue}) *)
outstandingTotal(dues, asOf) ==
  SumInts([i \in 1..Len(Unsettled(dues)) |-> TotalOwed(Unsettled(dues)[i], asOf)])

(* C22: the outstanding totals the lists show equal the sum of totalOwed   *)
(* (base amount plus late fee as of today) over the dues that are pending  *)
(* or overdue.                                                             *)
C22_OutstandingTotal ==
  /\ totalOutstanding(student_dues, now) = outstandingTotal(student_dues, Today)
  /\ totalOutstanding_amounts(student_dues) = outstandingTotal(student_dues, Today)
  /\ totalOutstanding_list(student_dues, now) = outstandingTotal(student_dues, Today)

(* the payments recorded against dues whose status is paid                 *)
PaymentsOfPaidDues ==
  SelectSeq(payments, LAMBDA p : p.due_id \in DueIds /\ Due(p.due_id).status = "paid")

(* C23: the sum of the base amounts of the paid dues is never greater than *)
(* the sum of the payments recorded against those dues.                    *)
C23_CollectedReconciles ==
  totalCollected(student_dues) <= SumAmounts(PaymentsOfPaidDues)

(* one due is paid, with more recorded against it than its base amount,    *)
(* while another due has a payment recorded and is not paid                *)
C23_Witness ==
  \E i, j \in DueIds :
    /\ Due(i).status = "paid"
    /\ PaidSum(payments, i) > Due(i).amount
    /\ Due(j).status # "paid"
    /\ RowsOfDue(payments, j) # <<>>

(* the dues of the subjects a professor owns; the dues of a student        *)
DuesOfProfessor(p) == SelectSeq(student_dues, LAMBDA d : d.subject_owner = p)

DuesOfStudent(s) == SelectSeq(student_dues, LAMBDA d : d.student_id = s)

(* C24: a student's totals are computed from that student's dues only, and *)
(* a professor's totals (outstanding, overdue count, student count) from   *)
(* the dues of that professor's subjects only.                             *)
C24_ScopedTotals ==
  /\ \A s \in StoreStudents :
       totalOutstanding(fetchDues_student(s), now)
         = totalOutstanding(DuesOfStudent(s), now)
  /\ \A p \in Professors :
       /\ totalOutstanding(fetchDues_professor(p), now)
            = totalOutstanding(DuesOfProfessor(p), now)
       /\ overdueCount(fetchDues_professor(p)) = overdueCount(DuesOfProfessor(p))
       /\ totalStudents(fetchDues_professor(p)) = totalStudents(DuesOfProfessor(p))

(* C25: a run of the sweep returns the number of dues it takes from        *)
(* pending to overdue (0 when it changes nothing).                         *)
C25_SweepReturnsCount ==
  [][mark_overdue_payments =>
       mark_overdue_payments_returns(student_dues, Today)
         = {Cardinality({id \in DueIds :
                           /\ Due(id).status = "pending"
                           /\ student_dues'[id].status = "overdue"})}]_vars

(* C26: the only status changes are pending -> overdue, made by the sweep, *)
(* and any status -> paid, made by recording a payment: no step sets a     *)
(* status to pending, and an overdue due changes to paid only.             *)
C26_OnlyTransitions ==
  [][\A id \in DueIds :
       student_dues'[id].status # Due(id).status =>
         \/ /\ mark_overdue_payments
            /\ Due(id).status = "pending"
            /\ student_dues'[id].status = "overdue"
         \/ /\ \E c \in Clients : Commit(c) /\ session[c].due_id = id
            /\ student_dues'[id].status = "paid"]_vars

(* the sweep has marked a due overdue, and a payment inserted after that   *)
(* and covering the due is about to commit and make it paid                *)
C26_Witness ==
  \E c \in Clients :
    /\ session[c].pc = "ready"
    /\ session[c].sets_paid
    /\ Due(session[c].due_id).status = "overdue"
    /\ Due(session[c].due_id).updated_at <= session[c].started

(* C27: recording a payment against a due (the insert's commit and the     *)
(* dialog's status update) leaves every other due as it was, leaves that   *)
(* due's amount, due date, percentage and student as they were, and leaves *)
(* the payments stored before unchanged.                                   *)
C27_PaymentFrame ==
  [][\A c \in Clients :
       (Commit(c) \/ ClientUpdate(c)) =>
         LET d == session[c].due_id
         IN /\ Len(student_dues') = Len(student_dues)
            /\ \A id \in DueIds \ {d} : student_dues'[id] = Due(id)
            /\ student_dues'[d].amount = Due(d).amount
            /\ student_dues'[d].due_date = Due(d).due_date
            /\ student_dues'[d].late_fee_percentage = Due(d).late_fee_percentage
            /\ student_dues'[d].student_id = Due(d).student_id
            /\ Len(payments') >= Len(payments)
            /\ SubSeq(payments', 1, Len(payments)) = payments]_vars

(* a second payment has just been recorded against a due, making it paid,  *)
(* while another due is not paid                                           *)
C27_Witness ==
  \E c \in Clients, j \in DueIds :
    /\ session[c].pc = "update"
    /\ j # session[c].due_id
    /\ Due(session[c].due_id).status = "paid"
    /\ Len(RowsOfDue(payments, session[c].due_id)) >= 2
    /\ Due(j).status # "paid"

(* C28: the total a payment dialog computes for an unpaid due at an        *)
(* instant (base amount plus the dialog's late fee) is at least the total  *)
(* the status trigger requires at that instant, so that a payment of it    *)
(* recorded then settles the due.                                          *)
C28_DialogTotalSettles ==
  \A id \in DueIds :
    Due(id).status \in {"pending", "overdue"} =>
      /\ Due(id).amount
           + calculateLateFee(Due(id).amount, Due(id).due_date,
                              Due(id).late_fee_percentage, now)
           >= TotalOwed(Due(id), Today)
      /\ calculateTotalAmount(Due(id), now) >= TotalOwed(Due(id), Today)

(* C29: the amount the payment dialog charges for an unpaid due is the     *)
(* due's outstanding balance, totalOwed(due, today) less the payments      *)
(* already recorded against it, and a payment through the dialog never     *)
(* takes the due's paid sum above totalOwed.                               *)
C29_DialogChargesBalance ==
  [][\A c \in Clients :
       /\ \A id \in DueIds :
            OpenDialog(c, id) =>
              session'[c].amount = TotalOwed(Due(id), Today) - PaidSum(payments, id)
       /\ Commit(c) =>
            PaidSum(payments', session[c].due_id)
              <= TotalOwed(Due(session[c].due_id), TxDate(c))]_vars

(* C30: for an unpaid due at one instant, whenever the countdown's         *)
(* days-left value is >= 0 the late fee shown is 0, and whenever a late    *)
(* fee > 0 is shown the days-left value is negative.                       *)
C30_CountdownAgreesWithFee ==
  \A id \in DueIds :
    Due(id).status \in {"pending", "overdue"} =>
      LET daysLeft == calculateDaysLeft(Due(id).due_date, now)
          lateFee == calculateTotalAmount(Due(id), now) - Due(id).amount
      IN /\ daysLeft >= 0 => lateFee = 0
         /\ lateFee > 0 => daysLeft < 0
====
